---- MODULE Spec2Model ----
(***************************************************************************)
(* A model of python-logkeeper: the lazily initialised logging facade      *)
(* (LogFactory), the issue registry (IssueRegistry) and the error-code     *)
(* resolution of the logger adapter (IssueRegistryAdapter).                *)
(*                                                                         *)
(* Python values are modelled as follows: None is the string "None", an    *)
(* exception is the name of its class, a class (an issue kind) is one of   *)
(* the model values of Kinds, and the class attribute _error_code is the   *)
(* function errorCode from kinds to their own attribute value.             *)
(***************************************************************************)
EXTENDS Integers, Sequences, FiniteSets, TLC

\* ------------------------------------------------------------------ bounds
NThreads == 2
MaxCalls == 2

MaxRecords == 1
MaxOps == 3

Threads == 1..NThreads

\* Every dictConfig call builds a new queueHandler (with a new queue and a new
\* listener); at most one call per create_logger call.
Gens == 1..(NThreads * MaxCalls)

\* ------------------------------------------------- the facade's environment
None == "None"

\* What opening, parsing and applying the configuration file does:
\* "valid" applies; the others are the exception the try block raises.
CfgOutcomes == {"valid", "FileNotFoundError", "YAMLError", "PermissionError", "ValueError"}

\* What the applied configuration registers under the name "queueHandler":
\* nothing, a QueueHandler with its listener, or a handler with no listener.
CfgHandlers == {"none", "queue", "nolistener"}

VARIABLES
    initialized,    \* LogFactory._initialized
    pc,             \* each thread's position inside create_logger
    calls,          \* create_logger calls each thread has begun
    outcome,        \* how each thread's last create_logger call ended
    cfgFile,        \* the configuration source (an element of CfgOutcomes)
    cfgHandler,     \* what the configuration defines as queueHandler
    loadCount,      \* executions of the try block of _setup_logging
    applyCount,     \* logging.config.dictConfig calls
    fallbackCount,  \* logging.basicConfig calls (the fallback)
    warnCount,      \* "Falling back ..." warnings emitted
    queueHandler,   \* logging.getHandlerByName("queueHandler"): 0 is None
    hasListener,    \* whether that handler has a listener attribute
    listenerStarts, \* QueueListener.start() calls
    atexitHooks,    \* callbacks registered with atexit, oldest first
    queue,          \* each queue handler's queue of records and sentinels
    workers,        \* each listener's worker threads, in start order
    threadRef,      \* each listener's _thread: an index into workers, 0 is None
    phase,          \* the process: "running", "atexit" or "exited"
    pendingHooks,   \* atexit callbacks still to run, the next one last
    joining,        \* the listener whose stop() is waiting in join(), or 0
    enqueued,       \* records put on a queue by log calls
    forwarded,      \* records a worker has handed to the final sinks
    issues,         \* IssueRegistry._issues, as its set of <<name, class>> items
    errorCode,      \* each class's own _error_code attribute ("None": not set)
    registrars,     \* the decorators register has returned: their closures
    lastCall,       \* the last registry call: its arguments and what it did
    opCount,        \* registry calls made so far
    held,           \* the dict a caller keeps and passes as extra=, or NoMap
    lastLog,        \* the last log call through the adapter: what went in and out
    userOps,        \* log calls, get_all_issues calls and edits of their results so far
    snapshot,       \* the mapping the last get_all_issues() returned, as its caller holds it
    config,         \* the "handlers" of the configuration dict _setup_file_output_directory is given
    rootArg,        \* its log_project_root argument
    dirPc,          \* "idle", "called" or "returned"
    returned,       \* the handlers of the dict it returned
    madeDirs,       \* the directories os.makedirs was called for
    rdPc,           \* a get_all_issues call in a reading thread: "idle", "iterating", "returned", "raised"
    rdSize,         \* the size of _issues when its items() iterator was made
    rdResult,       \* the mapping the comprehension has built so far
    rdSeen          \* every value the table has had since that call began

facadeVars == <<initialized, pc, calls, outcome, cfgFile, cfgHandler, loadCount,
                applyCount, fallbackCount, warnCount, queueHandler, hasListener,
                listenerStarts, atexitHooks>>

queueVars == <<queue, workers, threadRef, phase, pendingHooks, joining, enqueued,
               forwarded>>

registryVars == <<issues, errorCode, registrars, lastCall, opCount>>

adapterVars == <<held, lastLog, userOps>>

snapshotVars == <<snapshot>>

dirVars == <<config, rootArg, dirPc, returned, madeDirs>>

readerVars == <<rdPc, rdSize, rdResult>>

\* What the calls of the registry's users leave alone, and the history kept for a reader.
userVars == <<adapterVars, snapshotVars, dirVars, readerVars>>

extVars == <<userVars, rdSeen>>

vars == <<facadeVars, queueVars, registryVars, extVars>>

NoOutcome == [kind |-> "none", cause |-> None]

FacadeInit ==
    /\ initialized = FALSE
    /\ pc = [t \in Threads |-> "idle"]
    /\ calls = [t \in Threads |-> 0]
    /\ outcome = [t \in Threads |-> NoOutcome]
    /\ cfgFile \in CfgOutcomes
    /\ cfgHandler \in CfgHandlers
    /\ loadCount = 0
    /\ applyCount = 0
    /\ fallbackCount = 0
    /\ warnCount = 0
    /\ queueHandler = 0
    /\ hasListener = FALSE
    /\ listenerStarts = 0
    /\ atexitHooks = <<>>
    /\ queue = [g \in Gens |-> <<>>]
    /\ workers = [g \in Gens |-> <<>>]
    /\ threadRef = [g \in Gens |-> 0]
    /\ phase = "running"
    /\ pendingHooks = <<>>
    /\ joining = 0
    /\ enqueued = 0
    /\ forwarded = 0

\* Mutants of Recovered: an except clause that is too narrow, and one too wide.
RecoveredMissingOnly(e) == e = "FileNotFoundError"

RecoveredAny(e) == TRUE

\* except (FileNotFoundError, yaml.YAMLError): the recovered failures.
Recovered(e) == e \in {"FileNotFoundError", "YAMLError"}

\* create_logger is entered: cls._initialize() is about to run.
CreateLogger(t) ==
    /\ phase = "running"
    /\ pc[t] = "idle"
    /\ calls[t] < MaxCalls
    /\ calls' = [calls EXCEPT ![t] = @ + 1]
    /\ outcome' = [outcome EXCEPT ![t] = NoOutcome]
    /\ pc' = [pc EXCEPT ![t] = "check"]
    /\ UNCHANGED <<initialized, cfgFile, cfgHandler, loadCount, applyCount,
                   fallbackCount, warnCount, queueHandler, hasListener,
                   listenerStarts, atexitHooks, queueVars, registryVars, extVars>>

\* Mutant of InitializeCheck: the flag is not consulted.
InitializeCheckAlways(t) ==
    /\ pc[t] = "check"
    /\ pc' = [pc EXCEPT ![t] = "setup"]
    /\ UNCHANGED <<initialized, calls, outcome, cfgFile, cfgHandler, loadCount,
                   applyCount, fallbackCount, warnCount, queueHandler, hasListener,
                   listenerStarts, atexitHooks, queueVars, registryVars, extVars>>

\* Mutant of InitializeCheck: a setup that was attempted counts as done.
InitializeCheckAttempted(t) ==
    /\ pc[t] = "check"
    /\ pc' = [pc EXCEPT ![t] = IF initialized \/ loadCount > 0 THEN "adapter" ELSE "setup"]
    /\ UNCHANGED <<initialized, calls, outcome, cfgFile, cfgHandler, loadCount,
                   applyCount, fallbackCount, warnCount, queueHandler, hasListener,
                   listenerStarts, atexitHooks, queueVars, registryVars, extVars>>

\* _initialize: if not cls._initialized (the flag is read without a lock).
InitializeCheck(t) ==
    /\ pc[t] = "check"
    /\ pc' = [pc EXCEPT ![t] = IF initialized THEN "adapter" ELSE "setup"]
    /\ UNCHANGED <<initialized, calls, outcome, cfgFile, cfgHandler, loadCount,
                   applyCount, fallbackCount, warnCount, queueHandler, hasListener,
                   listenerStarts, atexitHooks, queueVars, registryVars, extVars>>

\* _setup_logging: the try block and its two except clauses.
SetupLogging(t) ==
    /\ pc[t] = "setup"
    /\ loadCount' = loadCount + 1
    /\ IF cfgFile = "valid"
       THEN \* yaml.safe_load, then dictConfig replaces the handlers
            /\ applyCount' = applyCount + 1
            /\ queueHandler' = IF cfgHandler = "none" THEN 0 ELSE applyCount + 1
            /\ hasListener' = (cfgHandler = "queue")
            /\ pc' = [pc EXCEPT ![t] = "listener"]
            /\ UNCHANGED <<fallbackCount, warnCount, outcome>>
       ELSE IF Recovered(cfgFile)
       THEN \* basicConfig(level=INFO) and the warning
            /\ fallbackCount' = fallbackCount + 1
            /\ warnCount' = warnCount + 1
            /\ pc' = [pc EXCEPT ![t] = "listener"]
            /\ UNCHANGED <<applyCount, queueHandler, hasListener, outcome>>
       ELSE \* except Exception as e: raise RuntimeError(f"...{e}")
            /\ applyCount' = IF cfgFile = "ValueError" THEN applyCount + 1 ELSE applyCount
            /\ outcome' = [outcome EXCEPT ![t] = [kind |-> "RuntimeError", cause |-> cfgFile]]
            /\ pc' = [pc EXCEPT ![t] = "idle"]
            /\ UNCHANGED <<fallbackCount, warnCount, queueHandler, hasListener>>
    /\ UNCHANGED <<initialized, calls, cfgFile, cfgHandler, listenerStarts, atexitHooks,
                   queueVars, registryVars, extVars>>

\* What listener.start() does: it starts a worker thread; on a listener that is
\* already running it starts a second one (CPython 3.12, 3.13) or raises
\* RuntimeError (CPython 3.14).
StartModes(g) == IF threadRef[g] = 0 THEN {"spawn"} ELSE {"spawn", "raise"}

\* _start_queue_listener: start the listener and register its stop.
StartQueueListener(t) ==
    /\ pc[t] = "listener"
    /\ IF queueHandler = 0
       THEN /\ pc' = [pc EXCEPT ![t] = "setflag"]
            /\ UNCHANGED <<listenerStarts, atexitHooks, outcome, workers, threadRef>>
       ELSE IF hasListener
       THEN \E mode \in StartModes(queueHandler) :
            /\ listenerStarts' = listenerStarts + 1
            /\ IF mode = "spawn"
               THEN /\ workers' = [workers EXCEPT ![queueHandler] = Append(@, "waiting")]
                    /\ threadRef' = [threadRef EXCEPT
                                        ![queueHandler] = Len(workers[queueHandler]) + 1]
                    /\ atexitHooks' = Append(atexitHooks, queueHandler)
                    /\ pc' = [pc EXCEPT ![t] = "setflag"]
                    /\ UNCHANGED outcome
               ELSE /\ outcome' = [outcome EXCEPT
                                      ![t] = [kind |-> "RuntimeError", cause |-> "started"]]
                    /\ pc' = [pc EXCEPT ![t] = "idle"]
                    /\ UNCHANGED <<atexitHooks, workers, threadRef>>
       ELSE \* queue_handler.listener raises AttributeError
            /\ outcome' = [outcome EXCEPT ![t] = [kind |-> "AttributeError", cause |-> None]]
            /\ pc' = [pc EXCEPT ![t] = "idle"]
            /\ UNCHANGED <<listenerStarts, atexitHooks, workers, threadRef>>
    /\ UNCHANGED <<initialized, calls, cfgFile, cfgHandler, loadCount, applyCount,
                   fallbackCount, warnCount, queueHandler, hasListener,
                   queue, phase, pendingHooks, joining, enqueued, forwarded,
                   registryVars, extVars>>

\* _initialize: cls._initialized = True.
SetInitialized(t) ==
    /\ pc[t] = "setflag"
    /\ initialized' = TRUE
    /\ pc' = [pc EXCEPT ![t] = "adapter"]
    /\ UNCHANGED <<calls, outcome, cfgFile, cfgHandler, loadCount, applyCount,
                   fallbackCount, warnCount, queueHandler, hasListener,
                   listenerStarts, atexitHooks, queueVars, registryVars, extVars>>

\* create_logger: IssueRegistryAdapter(logging.getLogger(name), {}) is returned.
ReturnAdapter(t) ==
    /\ pc[t] = "adapter"
    /\ outcome' = [outcome EXCEPT ![t] = [kind |-> "adapter", cause |-> None]]
    /\ pc' = [pc EXCEPT ![t] = "idle"]
    /\ UNCHANGED <<initialized, calls, cfgFile, cfgHandler, loadCount, applyCount,
                   fallbackCount, warnCount, queueHandler, hasListener,
                   listenerStarts, atexitHooks, queueVars, registryVars, extVars>>

\* A log call through the adapter a thread was handed: the configured
\* queueHandler puts the record on its queue.
LogRecord(t) ==
    /\ phase = "running"
    /\ pc[t] = "idle"
    /\ outcome[t].kind = "adapter"
    /\ queueHandler # 0
    /\ hasListener
    /\ enqueued < MaxRecords
    /\ queue' = [queue EXCEPT ![queueHandler] = Append(@, "record")]
    /\ enqueued' = enqueued + 1
    /\ UNCHANGED <<registryVars, extVars, facadeVars, workers, threadRef, phase, pendingHooks, joining, forwarded>>

\* A worker started by listener.start() takes the next item off its queue:
\* a record it goes on to handle, or the sentinel that ends it.
WorkerDequeue(g, w) ==
    /\ phase # "exited"
    /\ w \in 1..Len(workers[g])
    /\ workers[g][w] = "waiting"
    /\ queue[g] # <<>>
    /\ queue' = [queue EXCEPT ![g] = Tail(@)]
    /\ workers' = [workers EXCEPT
                      ![g][w] = IF Head(queue[g]) = "sentinel" THEN "exited" ELSE "handling"]
    /\ UNCHANGED <<registryVars, extVars, facadeVars, threadRef, phase, pendingHooks, joining, enqueued, forwarded>>

\* The worker hands the record it took to the final sinks.
WorkerHandle(g, w) ==
    /\ phase # "exited"
    /\ w \in 1..Len(workers[g])
    /\ workers[g][w] = "handling"
    /\ workers' = [workers EXCEPT ![g][w] = "waiting"]
    /\ forwarded' = forwarded + 1
    /\ UNCHANGED <<registryVars, extVars, facadeVars, queue, threadRef, phase, pendingHooks, joining, enqueued>>

\* Normal termination: every thread has left create_logger, and the
\* interpreter starts running the atexit callbacks, last registered first.
BeginExit ==
    /\ phase = "running"
    /\ \A t \in Threads : pc[t] = "idle"
    /\ phase' = "atexit"
    /\ pendingHooks' = atexitHooks
    /\ UNCHANGED <<registryVars, extVars, facadeVars, queue, workers, threadRef, joining, enqueued, forwarded>>

\* The registered listener.stop: the sentinel is put on the queue and the
\* call waits in join(); a listener already stopped has nothing to do.
StopEnqueue ==
    /\ phase = "atexit"
    /\ joining = 0
    /\ pendingHooks # <<>>
    /\ LET g == pendingHooks[Len(pendingHooks)] IN
       /\ pendingHooks' = SubSeq(pendingHooks, 1, Len(pendingHooks) - 1)
       /\ IF threadRef[g] = 0
          THEN UNCHANGED <<queue, joining>>
          ELSE /\ queue' = [queue EXCEPT ![g] = Append(@, "sentinel")]
               /\ joining' = g
    /\ UNCHANGED <<registryVars, extVars, facadeVars, workers, threadRef, phase, enqueued, forwarded>>

\* listener.stop returns once the thread it joins has ended.
StopJoin ==
    /\ phase = "atexit"
    /\ joining # 0
    /\ workers[joining][threadRef[joining]] = "exited"
    /\ threadRef' = [threadRef EXCEPT ![joining] = 0]
    /\ joining' = 0
    /\ UNCHANGED <<registryVars, extVars, facadeVars, queue, workers, phase, pendingHooks, enqueued, forwarded>>

\* Every callback has run: the process exits and its daemon workers with it.
FinishExit ==
    /\ phase = "atexit"
    /\ joining = 0
    /\ pendingHooks = <<>>
    /\ phase' = "exited"
    /\ UNCHANGED <<registryVars, extVars, facadeVars, queue, workers, threadRef, pendingHooks, joining, enqueued,
                   forwarded>>

\* ------------------------------------------------------------ the registry

\* The classes offered for registration. DerivedKind subclasses BaseKind, so
\* getattr and hasattr on it also see BaseKind's _error_code.
BaseKind == "<class Base>"
DerivedKind == "<class Derived>"
OtherKind == "<class Other>"
Kinds == {BaseKind, DerivedKind, OtherKind}

\* decorated_class.__name__
ClassName(k) ==
    CASE k = BaseKind -> "Base"
      [] k = DerivedKind -> "Derived"
      [] k = OtherKind -> "Other"

\* The base class of k, or None.
Parent(k) == IF k = DerivedKind THEN BaseKind ELSE None

\* The names callers pass: one that no class has, one that is a class's name.
Names == {"Quota", "Base"}

Keys == Names \cup {ClassName(k) : k \in Kinds}

Codes == {"E1001", "E1002"}

\* isinstance(x, str) and isinstance(x, type)
IsStr(x) == x \in Names

IsType(x) == x \in Kinds

\* The closures of the two decorators register returns.
Registrars == [name : Names \cup {None}, code : Codes \cup {None}]

\* key and kind are the entry a call stored, old the class it replaced.
NoCall == [op |-> "none", shape |-> 0, a |-> None, b |-> None, c |-> None,
           result |-> None, key |-> None, kind |-> None, old |-> None]

RegistryInit ==
    /\ issues = {}
    /\ errorCode = [k \in Kinds |-> None]
    /\ registrars = {}
    /\ lastCall = NoCall
    /\ opCount = 0

\* Mutant of DictSet: dict.setdefault, which keeps an existing entry.
DictSetDefault(d, n, k) == IF \E p \in d : p[1] = n THEN d ELSE d \cup {<<n, k>>}

\* cls._issues[n] = k
DictSet(d, n, k) == {p \in d : p[1] # n} \cup {<<n, k>>}

\* cls._issues.get(n)
DictGet(d, n) == IF \E p \in d : p[1] = n THEN (CHOOSE p \in d : p[1] = n)[2] ELSE None

\* getattr(k, "_error_code", None): the class's own attribute, else its base's.
GetAttr(ec, k) ==
    IF ec[k] # None THEN ec[k]
    ELSE IF Parent(k) # None THEN ec[Parent(k)]
    ELSE None

\* hasattr(k, "_error_code")
HasAttr(ec, k) == GetAttr(ec, k) # None

\* Mutant of SetCode: the attribute is assigned whatever code is, None too.
SetCodeAlways(ec, k, c) == [ec EXCEPT ![k] = c]

\* if code is not None: setattr(k, "_error_code", code)
SetCode(ec, k, c) == IF c # None THEN [ec EXCEPT ![k] = c] ELSE ec

\* IssueRegistry.get(name)
Get(n) == DictGet(issues, n)

\* IssueRegistry.get_all_issues(): name -> {"class", "code"}
GetAllIssues ==
    [n \in {p[1] : p \in issues} |->
        [class |-> DictGet(issues, n), code |-> GetAttr(errorCode, DictGet(issues, n))]]

\* Mutant of ResolveErrorCode: the fallback is the docstring's "N/A".
ResolveErrorCodeNA(n) ==
    IF n = None THEN "N/A"
    ELSE IF Get(n) = None THEN "N/A"
    ELSE IF HasAttr(errorCode, Get(n)) THEN GetAttr(errorCode, Get(n))
    ELSE "N/A"

\* The error_code IssueRegistryAdapter.process resolves for an issue name.
ResolveErrorCode(n) ==
    IF n = None THEN "XXX"
    ELSE IF Get(n) = None THEN "XXX"
    ELSE IF HasAttr(errorCode, Get(n)) THEN GetAttr(errorCode, Get(n))
    ELSE "XXX"

\* Mutant of CodeOnlyShape: the test for a code is missing.
CodeOnlyShapeNoCode(a, b, c) == a = None /\ b = None

\* name_or_class is None and class_obj is None and code is not None
CodeOnlyShape(a, b, c) == a = None /\ b = None /\ c # None

\* IssueRegistry.register(a, b, code=c): the four branches and the TypeError.
Register(a, b, c) ==
    /\ opCount < MaxOps
    /\ opCount' = opCount + 1
    /\ IF IsStr(a) /\ b # None
       THEN \* register("Name", SomeClass, code=...)
            /\ issues' = DictSet(issues, a, b)
            /\ errorCode' = SetCode(errorCode, b, c)
            /\ lastCall' = [op |-> "register", shape |-> 1, a |-> a, b |-> b, c |-> c,
                            result |-> b, key |-> a, kind |-> b,
                            old |-> DictGet(issues, a)]
            /\ UNCHANGED registrars
       ELSE IF IsStr(a) /\ b = None
       THEN \* @register("Name", code=...): the decorator is returned
            /\ registrars' = registrars \cup {[name |-> a, code |-> c]}
            /\ lastCall' = [op |-> "register", shape |-> 2, a |-> a, b |-> b, c |-> c,
                            result |-> "decorator", key |-> None, kind |-> None,
                            old |-> None]
            /\ UNCHANGED <<issues, errorCode>>
       ELSE IF IsType(a) /\ b = None
       THEN \* @register on the class itself
            /\ issues' = DictSet(issues, ClassName(a), a)
            /\ errorCode' = IF HasAttr(errorCode, a) THEN errorCode
                            ELSE SetCode(errorCode, a, c)
            /\ lastCall' = [op |-> "register", shape |-> 3, a |-> a, b |-> b, c |-> c,
                            result |-> a, key |-> ClassName(a), kind |-> a,
                            old |-> DictGet(issues, ClassName(a))]
            /\ UNCHANGED registrars
       ELSE IF CodeOnlyShape(a, b, c)
       THEN \* @register(code=...): the decorator is returned
            /\ registrars' = registrars \cup {[name |-> None, code |-> c]}
            /\ lastCall' = [op |-> "register", shape |-> 4, a |-> a, b |-> b, c |-> c,
                            result |-> "decorator", key |-> None, kind |-> None,
                            old |-> None]
            /\ UNCHANGED <<issues, errorCode>>
       ELSE \* raise TypeError("Invalid usage. Expected either: 1) ... 4) ...")
            /\ lastCall' = [op |-> "register", shape |-> 0, a |-> a, b |-> b, c |-> c,
                            result |-> "TypeError", key |-> None, kind |-> None,
                            old |-> None]
            /\ UNCHANGED <<issues, errorCode, registrars>>
    /\ UNCHANGED <<facadeVars, queueVars, userVars>>

\* Mutant of ApplyDecorator: the decorators lack "return decorated_class".
ApplyDecoratorNoReturn(r, k) ==
    /\ opCount < MaxOps
    /\ opCount' = opCount + 1
    /\ r \in registrars
    /\ IF r.name # None
       THEN /\ issues' = DictSet(issues, r.name, k)
            /\ errorCode' = SetCode(errorCode, k, r.code)
            /\ lastCall' = [op |-> "apply", shape |-> 2, a |-> r.name, b |-> k,
                            c |-> r.code, result |-> None, key |-> r.name, kind |-> k,
                            old |-> DictGet(issues, r.name)]
       ELSE /\ issues' = DictSet(issues, ClassName(k), k)
            /\ errorCode' = [errorCode EXCEPT ![k] = r.code]
            /\ lastCall' = [op |-> "apply", shape |-> 4, a |-> None, b |-> k,
                            c |-> r.code, result |-> None, key |-> ClassName(k), kind |-> k,
                            old |-> DictGet(issues, ClassName(k))]
    /\ UNCHANGED <<registrars, facadeVars, queueVars, userVars>>

\* A decorator register returned is applied to a class.
ApplyDecorator(r, k) ==
    /\ opCount < MaxOps
    /\ opCount' = opCount + 1
    /\ r \in registrars
    /\ IF r.name # None
       THEN \* the decorator of @register("Name", code=...)
            /\ issues' = DictSet(issues, r.name, k)
            /\ errorCode' = SetCode(errorCode, k, r.code)
            /\ lastCall' = [op |-> "apply", shape |-> 2, a |-> r.name, b |-> k,
                            c |-> r.code, result |-> k, key |-> r.name, kind |-> k,
                            old |-> DictGet(issues, r.name)]
       ELSE \* the decorator of @register(code=...)
            /\ issues' = DictSet(issues, ClassName(k), k)
            /\ errorCode' = [errorCode EXCEPT ![k] = r.code]
            /\ lastCall' = [op |-> "apply", shape |-> 4, a |-> None, b |-> k,
                            c |-> r.code, result |-> k, key |-> ClassName(k), kind |-> k,
                            old |-> DictGet(issues, ClassName(k))]
    /\ UNCHANGED <<registrars, facadeVars, queueVars, userVars>>

RegistryStep ==
    \/ \E a \in Names \cup Kinds \cup {None}, b \in Kinds \cup {None}, c \in Codes \cup {None} :
          Register(a, b, c) /\ UNCHANGED rdSeen
    \/ \E r \in Registrars, k \in Kinds : ApplyDecorator(r, k) /\ UNCHANGED rdSeen

\* ---- IssueRegistryAdapter: a log call's extension map ----

\* The keys of an extension map; "user" stands for any key the adapter ignores.
ExtKeys == {"issue", "error_code", "user"}

\* The issue names callers log under: names of the registry and one it never has.
IssueVals == Names \cup {"Missing"}

ExtVals(k) ==
    CASE k = "issue" -> IssueVals
      [] k = "error_code" -> {"CALLER"}
      [] k = "user" -> {"u1"}

\* The dicts a caller builds for extra=.
ExtMaps ==
    UNION {{m \in [D -> IssueVals \cup {"CALLER", "u1"}] : \A k \in D : m[k] \in ExtVals(k)} :
              D \in SUBSET ExtKeys}

Messages == {"m1", "m2"}

EmptyMap == [k \in {} |-> None]

\* What a call passes as extra=: a dict, or nothing.
Extra(m) == [given |-> TRUE, map |-> m]

NoExtra == [given |-> FALSE, map |-> EmptyMap]

\* own: the error_code the caller itself put into the dict it keeps, if any.
NoMap == [kept |-> FALSE, map |-> EmptyMap, own |-> None]

NoLog == [op |-> "none", msg |-> None, passed |-> NoExtra, own |-> None, reused |-> FALSE,
          outMsg |-> None, out |-> EmptyMap]

AdapterInit ==
    /\ held = NoMap
    /\ lastLog = NoLog
    /\ userOps = 0

\* m[k] = v, as it leaves m
SetItem(m, k, v) == [x \in DOMAIN m \cup {k} |-> IF x = k THEN v ELSE m[x]]

\* Mutant of SetDefault: the key is assigned, whatever the dict held.
SetDefaultAssigns(m, k, v) == SetItem(m, k, v)

\* Mutant of SetDefault: the dict is only read.
SetDefaultSkipped(m, k, v) == m

\* m.setdefault(k, v), as it leaves m
SetDefault(m, k, v) == IF k \in DOMAIN m THEN m ELSE SetItem(m, k, v)

\* extra.get(k, None)
MapGet(m, k) == IF k \in DOMAIN m THEN m[k] ELSE None

\* IssueRegistryAdapter.process(msg, kwargs), e being what kwargs holds as extra.
\* The dict it returns as extra is the one it was given, changed in place.
Process(msg, e) ==
    LET extra == IF e.given THEN e.map ELSE EmptyMap
        issue == MapGet(extra, "issue")
        error_code == ResolveErrorCode(issue)
    IN  [msg |-> msg, extra |-> SetDefault(extra, "error_code", error_code)]

\* logger.<level>(msg, extra=m) with a dict built for this call, or with no extra.
LogFresh(msg, e) ==
    /\ opCount + userOps < MaxOps
    /\ userOps' = userOps + 1
    /\ LET r == Process(msg, e)
       IN  /\ lastLog' = [op |-> "log", msg |-> msg, passed |-> e,
                          own |-> MapGet(e.map, "error_code"), reused |-> FALSE,
                          outMsg |-> r.msg, out |-> r.extra]
           /\ held' = IF e.given
                      THEN [kept |-> TRUE, map |-> r.extra, own |-> MapGet(e.map, "error_code")]
                      ELSE held
    /\ UNCHANGED <<facadeVars, queueVars, registryVars, snapshotVars, dirVars, readerVars, rdSeen>>

\* logger.<level>(msg, extra=d) with the dict d the caller passed to an earlier call.
LogHeld(msg) ==
    /\ opCount + userOps < MaxOps
    /\ held.kept
    /\ userOps' = userOps + 1
    /\ LET r == Process(msg, Extra(held.map))
       IN  /\ lastLog' = [op |-> "log", msg |-> msg, passed |-> Extra(held.map),
                          own |-> held.own, reused |-> TRUE,
                          outMsg |-> r.msg, out |-> r.extra]
           /\ held' = [held EXCEPT !.map = r.extra]
    /\ UNCHANGED <<facadeVars, queueVars, registryVars, snapshotVars, dirVars, readerVars, rdSeen>>

\* d["issue"] = v, by the caller, between two log calls.
SetHeldIssue(v) ==
    /\ held.kept
    /\ MapGet(held.map, "issue") # v
    /\ held' = [held EXCEPT !.map = SetItem(held.map, "issue", v)]
    /\ UNCHANGED <<lastLog, userOps, facadeVars, queueVars, registryVars, snapshotVars, dirVars, readerVars, rdSeen>>

\* register(name, cls, code=c), called directly by the modules that define issues.
DirectRegister ==
    \E n \in Names, k \in Kinds, c \in Codes \cup {None} :
        opCount + userOps < MaxOps /\ Register(n, k, c) /\ UNCHANGED rdSeen

AdapterStep ==
    \/ \E msg \in Messages, e \in {Extra(m) : m \in ExtMaps} \cup {NoExtra} : LogFresh(msg, e)
    \/ \E msg \in Messages : LogHeld(msg)
    \/ \E v \in IssueVals : SetHeldIssue(v)

\* ---- get_all_issues(): the mapping a caller receives ----

NoSnapshot == [last |-> "none", map |-> EmptyMap]

SnapshotInit == snapshot = NoSnapshot

\* The values a caller can put into the mapping under a name.
Entries == [class : Kinds, code : Codes \cup {None}]

\* Mutant of ReturnsTable: the mapping returned is a view of the table itself.
ReturnsTableItself == TRUE

\* Whether the mapping get_all_issues returns shares the registry's own dict:
\* it is a dict built by the call, of dicts built by the call.
ReturnsTable == FALSE

\* The table and the codes a write through a shared mapping m would leave.
TableOf(m) == {<<n, m[n].class>> : n \in DOMAIN m}

CodesOf(m, ec) ==
    [k \in Kinds |-> IF \E n \in DOMAIN m : m[n].class = k
                     THEN m[CHOOSE n \in DOMAIN m : m[n].class = k].code
                     ELSE ec[k]]

\* result = registry.get_all_issues(), kept by the caller
GetAllIssuesCall ==
    /\ opCount + userOps < MaxOps
    /\ userOps' = userOps + 1
    /\ snapshot' = [last |-> "get_all_issues", map |-> GetAllIssues]
    /\ UNCHANGED <<facadeVars, queueVars, registryVars, held, lastLog, dirVars, readerVars, rdSeen>>

\* The caller changes the mapping it holds to m.
EditSnapshot(m) ==
    /\ opCount + userOps < MaxOps
    /\ snapshot.last # "none"
    /\ m # snapshot.map
    /\ userOps' = userOps + 1
    /\ snapshot' = [last |-> "edit", map |-> m]
    /\ IF ReturnsTable
       THEN /\ issues' = TableOf(m)
            /\ errorCode' = CodesOf(m, errorCode)
       ELSE UNCHANGED <<issues, errorCode>>
    /\ UNCHANGED <<registrars, lastCall, opCount, facadeVars, queueVars, held, lastLog, dirVars, readerVars, rdSeen>>

\* del result[n]
DelEntry(n) ==
    n \in DOMAIN snapshot.map
        /\ EditSnapshot([x \in DOMAIN snapshot.map \ {n} |-> snapshot.map[x]])

\* result[n] = {"class": k, "code": c}; with the class or the code that is
\* there already, this is also result[n]["code"] = c and result[n]["class"] = k.
PutEntry(n, e) == EditSnapshot(SetItem(snapshot.map, n, e))

SnapshotStep ==
    \/ GetAllIssuesCall
    \/ \E n \in Names : DelEntry(n)
    \/ \E n \in Names, e \in Entries : PutEntry(n, e)

\* ---- LogFactory._setup_file_output_directory (src/core/factory.py) ----

\* The one handler class whose entries the loop rewrites.
Rotating == "logging.handlers.RotatingFileHandler"

HandlerClasses == {Rotating, "logging.StreamHandler"}

HandlerNames == {"file", "audit"}

\* A path is the sequence of its components; <<>> is no filename (or an empty
\* one). A foldername is None when the handler has no such key.
HandlerEntries ==
    [class : HandlerClasses, filename : {<<>>, <<"app.log">>},
     foldername : {None, "", "worker"}]

Configs == [HandlerNames -> HandlerEntries]

\* The parent of the directory that holds factory.py.
DefaultRoot == <<"src">>

NoRoot == [given |-> FALSE, path |-> <<>>]

RootArgs == {NoRoot, [given |-> TRUE, path |-> <<"srv">>]}

\* os.path.join of relative paths, and os.path.dirname
Join(p, q) == p \o q

Dirname(p) == SubSeq(p, 1, Len(p) - 1)

\* os.path.join("logs", foldername) if foldername else "logs"
OutputFolder(foldername) ==
    IF foldername \in {None, ""} THEN <<"logs">> ELSE Join(<<"logs">>, <<foldername>>)

\* One pass of the loop body over handler entry h, with root the logs root.
RewriteHandler(h, root) ==
    IF h.class # Rotating THEN h
    ELSE [h EXCEPT !.foldername = None,
                   !.filename = IF h.filename # <<>>
                                THEN Join(Join(root, OutputFolder(h.foldername)), h.filename)
                                ELSE h.filename]

\* The loop stands inside "if log_project_root is None".
RewriteConfig(c, r) ==
    IF ~r.given THEN [n \in DOMAIN c |-> RewriteHandler(c[n], DefaultRoot)] ELSE c

MakeDirs(c, r) ==
    IF ~r.given
    THEN {Dirname(RewriteHandler(c[n], DefaultRoot).filename) :
              n \in {x \in DOMAIN c : c[x].class = Rotating /\ c[x].filename # <<>>}}
    ELSE {}

DirInit ==
    /\ config = [n \in HandlerNames |-> [class |-> "logging.StreamHandler", filename |-> <<>>,
                                         foldername |-> None]]
    /\ rootArg = NoRoot
    /\ dirPc = "idle"
    /\ returned = config
    /\ madeDirs = {}

\* config = cls._setup_file_output_directory(config, log_project_root)
SetupFileOutputDirectory ==
    /\ dirPc = "called"
    /\ dirPc' = "returned"
    /\ returned' = RewriteConfig(config, rootArg)
    /\ config' = returned'
    /\ madeDirs' = MakeDirs(config, rootArg)
    /\ UNCHANGED <<rootArg, facadeVars, queueVars, registryVars, adapterVars, snapshotVars, readerVars, rdSeen>>

\* ---- get_all_issues() in one thread while others register ----

ReaderInit ==
    /\ rdPc = "idle"
    /\ rdSize = 0
    /\ rdResult = EmptyMap
    /\ rdSeen = {}

\* The call begins: cls._issues.items() is made into an iterator.
ReaderStart ==
    /\ opCount + userOps < MaxOps
    /\ rdPc = "idle"
    /\ userOps' = userOps + 1
    /\ rdPc' = "iterating"
    /\ rdSize' = Cardinality(issues)
    /\ rdResult' = EmptyMap
    /\ rdSeen' = {GetAllIssues}
    /\ UNCHANGED <<held, lastLog, facadeVars, queueVars, registryVars, snapshotVars, dirVars>>

\* One turn of the comprehension's loop. The iterator raises RuntimeError
\* ("dictionary changed size during iteration") when the dict's size is not
\* the one it started with; else it yields the next item, for which the
\* entry is built with the class's code as it is now, or it is exhausted.
\* The items come in insertion order, which the table as a set does not
\* keep: any order is taken.
ReaderNext ==
    /\ rdPc = "iterating"
    /\ IF Cardinality(issues) # rdSize
       THEN rdPc' = "raised" /\ UNCHANGED rdResult
       ELSE IF DOMAIN rdResult = {p[1] : p \in issues}
       THEN rdPc' = "returned" /\ UNCHANGED rdResult
       ELSE /\ \E p \in issues :
                  /\ p[1] \notin DOMAIN rdResult
                  /\ rdResult' = SetItem(rdResult, p[1],
                                         [class |-> p[2], code |-> GetAttr(errorCode, p[2])])
            /\ UNCHANGED rdPc
    /\ UNCHANGED <<rdSize, rdSeen, facadeVars, queueVars, registryVars, adapterVars,
                   snapshotVars, dirVars>>

\* register(name, cls, code=c) in another thread.
ConcurrentRegister ==
    \E n \in Names, k \in Kinds, c \in Codes \cup {None} :
        /\ opCount + userOps < MaxOps
        /\ Register(n, k, c)
        /\ rdSeen' = IF rdPc = "iterating" THEN rdSeen \cup {GetAllIssues'} ELSE rdSeen

ThreadStep(t) ==
    \/ CreateLogger(t)
    \/ InitializeCheck(t)
    \/ SetupLogging(t)
    \/ StartQueueListener(t)
    \/ SetInitialized(t)
    \/ ReturnAdapter(t)
    \/ LogRecord(t)

ProcessStep ==
    \/ \E g \in Gens : \E w \in 1..NThreads * MaxCalls : WorkerDequeue(g, w)
    \/ \E g \in Gens : \E w \in 1..NThreads * MaxCalls : WorkerHandle(g, w)
    \/ BeginExit
    \/ StopEnqueue
    \/ StopJoin
    \/ FinishExit

ExtInit == AdapterInit /\ SnapshotInit /\ DirInit /\ ReaderInit

Init == FacadeInit /\ RegistryInit /\ ExtInit

\* Threads call create_logger and log concurrently.
Next == (\E t \in Threads : ThreadStep(t)) \/ ProcessStep

Spec == Init /\ [][Next]_vars

\* One create_logger call at a time: a thread moves only while the others are idle.
NextSeq ==
    \/ \E t \in Threads : (\A u \in Threads \ {t} : pc[u] = "idle") /\ ThreadStep(t)
    \/ ProcessStep

SpecSeq == Init /\ [][NextSeq]_vars

\* The registry alone, as the modules that define issues use it.
InitRegistry == Init /\ cfgFile = "valid" /\ cfgHandler = "none"

SpecRegistry == InitRegistry /\ [][RegistryStep]_vars

\* Log calls through the adapter, between registrations.
NextAdapter == DirectRegister \/ AdapterStep

SpecAdapter == InitRegistry /\ [][NextAdapter]_vars

\* Callers of get_all_issues that edit what they received, between registrations.
NextSnapshot == DirectRegister \/ SnapshotStep

SpecSnapshot == InitRegistry /\ [][NextSnapshot]_vars

\* One thread reads the whole table while the others register.
NextReader == ConcurrentRegister \/ ReaderStart \/ ReaderNext

SpecReader == InitRegistry /\ [][NextReader]_vars

\* _setup_file_output_directory called on a configuration, with or without a root.
InitDirs ==
    /\ FacadeInit /\ cfgFile = "valid" /\ cfgHandler = "none"
    /\ RegistryInit /\ AdapterInit /\ SnapshotInit /\ ReaderInit
    /\ config \in Configs
    /\ rootArg \in RootArgs
    /\ dirPc = "called"
    /\ returned = config
    /\ madeDirs = {}

SpecDirs == InitDirs /\ [][SetupFileOutputDirectory]_vars

\* ------------------------------------------------------- the facade's claims

\* Configurations with which no step of the setup sequence can raise.
SetupCannotFail ==
    \/ cfgFile \in {"FileNotFoundError", "YAMLError"}
    \/ cfgFile = "valid" /\ cfgHandler # "nolistener"

\* C1: when threads race into create_logger before initialization, the setup
\* sequence (the configuration load and apply of _setup_logging) runs exactly
\* once: never twice, and once as soon as a caller holds an adapter.
C1_SetupExactlyOnce ==
    SetupCannotFail =>
        /\ loadCount <= 1
        /\ (\E t \in Threads : outcome[t].kind = "adapter") => loadCount = 1

\* C2: _initialized starts false, is true only after a setup that did not
\* raise, never goes back to false, and in a sequential run no call made once
\* it is true loads or applies a configuration.
C2_InitializedOneWay ==
    /\ ~initialized
    /\ [](initialized => /\ SetupCannotFail
                         /\ loadCount >= 1
                         /\ applyCount + fallbackCount >= 1)
    /\ [][initialized => initialized']_vars
    /\ [][initialized => UNCHANGED <<loadCount, applyCount, fallbackCount>>]_vars

\* C2's case: a second call of a thread returned its adapter after the one setup.
C2_Witness ==
    /\ initialized
    /\ loadCount = 1
    /\ \E t \in Threads : calls[t] >= 2 /\ pc[t] = "idle" /\ outcome[t].kind = "adapter"

\* C3: over any interleaving of create_logger calls the queue listener is
\* started at most once and its stop is registered with atexit at most once.
C3_ListenerStartedOnce == listenerStarts <= 1 /\ Len(atexitHooks) <= 1

\* C4: with a configuration file that is missing or is not YAML, no call
\* raises, each finished call returned an adapter with the facade initialized,
\* and the fallback (basicConfig and its warning) ran once and only once, so
\* that later calls do not load again.
C4_FallbackRecovers ==
    cfgFile \in {"FileNotFoundError", "YAMLError"} =>
        /\ \A t \in Threads : outcome[t].kind \in {"none", "adapter"}
        /\ \A t \in Threads : pc[t] = "idle" /\ calls[t] > 0 => outcome[t].kind = "adapter"
        /\ \A t \in Threads : outcome[t].kind = "adapter" => initialized
        /\ loadCount <= 1
        /\ fallbackCount = loadCount
        /\ warnCount = loadCount
        /\ applyCount = 0
        /\ initialized => loadCount = 1

\* C4's case: after the fallback a thread's second call returned an adapter.
C4_Witness ==
    /\ cfgFile \in {"FileNotFoundError", "YAMLError"}
    /\ warnCount = 1
    /\ \E t \in Threads : calls[t] >= 2 /\ pc[t] = "idle" /\ outcome[t].kind = "adapter"

\* C5: with any other error in loading or applying the configuration, every
\* create_logger call ends in the RuntimeError that wraps the cause; there is
\* no fallback, no adapter is returned and the facade is not initialized.
C5_SetupErrorFatal ==
    cfgFile \in {"PermissionError", "ValueError"} =>
        /\ fallbackCount = 0
        /\ warnCount = 0
        /\ ~initialized
        /\ \A t \in Threads : pc[t] \in {"idle", "check", "setup"}
        /\ \A t \in Threads : outcome[t].kind # "adapter"
        /\ \A t \in Threads : pc[t] = "idle" /\ calls[t] > 0 =>
               outcome[t] = [kind |-> "RuntimeError", cause |-> cfgFile]

\* C5's case: a call has failed on a configuration file that cannot be read.
C5_Witness ==
    /\ cfgFile = "PermissionError"
    /\ \E t \in Threads : pc[t] = "idle" /\ outcome[t].kind = "RuntimeError"

\* C6: at process exit every record enqueued by a log call has been forwarded
\* to the final sinks by a worker.
C6_DrainedAtExit == phase = "exited" => forwarded = enqueued

\* ----------------------------------------------------- the registry's claims

\* The step is a registry call that stored kind k under name n.
Stores(n) == opCount' = opCount + 1 /\ lastCall'.key = n

\* The code get_all_issues() reports for a registered name.
ReportedCode(n) == GetAllIssues[n].code

\* C7: right after a registration in any of the four shapes with a code c,
\* get(name) is a class whose _error_code is c and get_all_issues() holds
\* the name with code c.
C7_SuppliedCodeReported ==
    (lastCall.key # None /\ lastCall.c # None) =>
        /\ Get(lastCall.key) # None
        /\ GetAttr(errorCode, Get(lastCall.key)) = lastCall.c
        /\ lastCall.key \in DOMAIN GetAllIssues
        /\ ReportedCode(lastCall.key) = lastCall.c

\* The four accepted shapes, as the usage text of register lists them.
MatchesShape(a, b, c) ==
    \/ IsStr(a) /\ IsType(b)
    \/ IsStr(a) /\ b = None
    \/ IsType(a) /\ b = None
    \/ a = None /\ b = None /\ c # None

\* The step is a call register(a, b, code=c).
RegisterCalled == opCount' = opCount + 1 /\ lastCall'.op = "register"

\* C8 as stated: a register call that matches none of the four shapes, or
\* that gives a name with no kind and no code, raises the TypeError and
\* leaves the table unchanged.
C8_NameOnlyRejected ==
    [][(/\ RegisterCalled
        /\ \/ ~MatchesShape(lastCall'.a, lastCall'.b, lastCall'.c)
           \/ IsStr(lastCall'.a) /\ lastCall'.b = None /\ lastCall'.c = None)
       => /\ lastCall'.result = "TypeError"
          /\ UNCHANGED <<issues, errorCode>>]_vars

\* C8 amended: a register call that matches none of the four shapes raises
\* the TypeError and changes nothing: no entry, no code, no decorator.
C8_InvalidUsageRejected ==
    [][(RegisterCalled /\ ~MatchesShape(lastCall'.a, lastCall'.b, lastCall'.c))
       => /\ lastCall'.result = "TypeError"
          /\ UNCHANGED <<issues, errorCode, registrars>>]_vars

\* C8's case: a call was rejected while the table held an entry.
C8_Witness ==
    /\ lastCall.op = "register"
    /\ lastCall.result = "TypeError"
    /\ ~MatchesShape(lastCall.a, lastCall.b, lastCall.c)
    /\ issues # {}

C10_LastWriteWins ==
    /\ [](\A p, q \in issues : p[1] = q[1] => p = q)
    /\ [](lastCall.key # None => Get(lastCall.key) = lastCall.kind)
    /\ [][\A n \in Keys : Get(n)' # Get(n) => Stores(n) /\ Get(n)' = lastCall'.kind]_vars

\* C10's case: a decorator's registration replaced the entry of another kind.
C10_Witness ==
    /\ lastCall.op = "apply"
    /\ lastCall.key # None
    /\ lastCall.old \in Kinds \ {lastCall.kind}
    /\ Get(lastCall.key) = lastCall.kind

\* ------------------------------------------------------ the adapter's claims

\* The issue name the extension of log call l carried, or None.
IssueOf(l) == MapGet(l.passed.map, "issue")

\* A step that is a log call through the adapter.
LogCalled == userOps' = userOps + 1

\* C11: whatever the extension a log call passes (any keys, or no extension at
\* all) and whatever the registry holds, the extension the adapter forwards
\* has the key error_code.
C11_ErrorCodePresent ==
    lastLog.op = "log" => "error_code" \in DOMAIN lastLog.out

\* A call with no extension at all, made while the registry has entries.
C11_Witness ==
    /\ lastLog.op = "log"
    /\ ~lastLog.passed.given
    /\ issues # {}
    /\ lastLog.out = SetItem(EmptyMap, "error_code", "XXX")

\* C12 as stated: the forwarded error_code is the code get_all_issues reports
\* for the entry the issue key names, and "XXX" when the name is unregistered
\* or the key absent.
CodeOfNamedEntry(l) ==
    IF IssueOf(l) \in DOMAIN GetAllIssues
    THEN l.out["error_code"] = GetAllIssues[IssueOf(l)].code
    ELSE l.out["error_code"] = "XXX"

CodeOfNamedEntryOrSentinel(l) ==
    "error_code" \notin DOMAIN l.passed.map =>
        IF IssueOf(l) \in DOMAIN GetAllIssues /\ GetAllIssues[IssueOf(l)].code # None
        THEN l.out["error_code"] = GetAllIssues[IssueOf(l)].code
        ELSE l.out["error_code"] = "XXX"

C13_OnlyErrorCodeAdded ==
    lastLog.op = "log" =>
        /\ lastLog.outMsg = lastLog.msg
        /\ DOMAIN lastLog.out = DOMAIN lastLog.passed.map \cup {"error_code"}
        /\ \A k \in DOMAIN lastLog.passed.map : lastLog.out[k] = lastLog.passed.map[k]

\* A caller's own error_code went out although the issue named has a code.
C13_Witness ==
    /\ lastLog.op = "log"
    /\ ~lastLog.reused
    /\ lastLog.own = "CALLER"
    /\ "user" \in DOMAIN lastLog.passed.map
    /\ ResolveErrorCode(IssueOf(lastLog)) \in Codes
    /\ lastLog.out["error_code"] = "CALLER"

\* C19 as stated: the forwarded error_code is the caller's own if the caller
\* supplied one, else the code resolved from this call's issue key in the
\* registry as it is at this call, also for a dict passed to an earlier call.
CodeOfThisCall(l) ==
    l.out["error_code"] = IF l.own # None THEN l.own ELSE ResolveErrorCode(IssueOf(l))

C19_CodeOfThisCallOnly == [][LogCalled => CodeOfThisCall(lastLog)']_vars

\* The caller of get_all_issues edits the mapping it received.
SnapshotEdited == userOps' = userOps + 1 /\ snapshot'.last = "edit"

ExpectedFile(root, h) ==
    IF h.foldername \in {None, ""}
    THEN root \o <<"logs">> \o h.filename
    ELSE root \o <<"logs", h.foldername>> \o h.filename

\* C15 as stated: when _setup_file_output_directory returns, every rotating
\* file handler that had a filename has it rewritten to <logs root>/logs/
\* <foldername>/<filename> (<logs root>/logs/<filename> without a foldername),
\* the directory of that file has been created, and no handler entry has a
\* foldername key, with the default logs root and with one passed explicitly.
C15_FilesUnderLogsRoot ==
    [][dirPc = "called" /\ dirPc' = "returned" =>
          LET root == IF rootArg.given THEN rootArg.path ELSE DefaultRoot
          IN  \A n \in HandlerNames :
                  /\ config[n].class = Rotating /\ config[n].filename # <<>> =>
                        /\ returned'[n].filename = ExpectedFile(root, config[n])
                        /\ Dirname(ExpectedFile(root, config[n])) \in madeDirs'
                  /\ returned'[n].foldername = None]_vars

\* ------------------------------------------------ the registry's later claims

\* The step is the first call of a two-step shape.
RegistrarRequested == RegisterCalled /\ lastCall'.shape \in {2, 4}

\* The step applies a registrar to a kind.
RegistrarApplied == opCount' = opCount + 1 /\ lastCall'.op = "apply"

\* The step applies, to another kind, the registrar the step before applied.
RegistrarAppliedAgain ==
    /\ RegistrarApplied
    /\ lastCall.op = "apply"
    /\ lastCall.shape = lastCall'.shape
    /\ lastCall.a = lastCall'.a
    /\ lastCall.c = lastCall'.c
    /\ lastCall.kind # lastCall'.kind

\* The first call returns a registrar and changes no entry and no code; the
\* application stores the kind and returns it.
TwoSteps ==
    /\ RegistrarRequested =>
          /\ lastCall'.result = "decorator"
          /\ [name |-> lastCall'.a, code |-> lastCall'.c] \in registrars'
          /\ UNCHANGED <<issues, errorCode>>
    /\ RegistrarApplied =>
          /\ lastCall'.result = lastCall'.b
          /\ DictGet(issues', lastCall'.key) = lastCall'.b

\* C16 as stated: in the two-step shapes the first call returns a registrar
\* and leaves the table unchanged, the application inserts the entry and
\* returns the kind it was given, and applying the same registrar to another
\* kind afterwards overwrites the entry the earlier application stored.
C16_RegistrarOverwrites ==
    [][/\ TwoSteps
       /\ RegistrarAppliedAgain => DictGet(issues', lastCall.key) = lastCall'.kind]_vars

\* C16, amended: as above, but a later application to another kind overwrites
\* the earlier entry only for a registrar made with a name; one made with a
\* code alone stores the new kind under that kind's own name and leaves the
\* entry of the earlier kind as it was.
C16_RegistrarStoresAgain ==
    [][/\ TwoSteps
       /\ RegistrarAppliedAgain =>
             IF lastCall'.shape = 2
             THEN DictGet(issues', lastCall.key) = lastCall'.kind
             ELSE /\ DictGet(issues', ClassName(lastCall'.kind)) = lastCall'.kind
                  /\ ClassName(lastCall'.kind) # lastCall.key =>
                        DictGet(issues', lastCall.key) = lastCall.kind]_vars

\* The one registrar there is, made with a code alone, has been applied to
\* two kinds: both are registered, each under its own name, with that code.
C16_Witness ==
    /\ opCount = 3
    /\ lastCall.op = "apply"
    /\ lastCall.shape = 4
    /\ registrars = {[name |-> None, code |-> lastCall.c]}
    /\ \E k \in Kinds \ {lastCall.kind} :
          /\ Get(ClassName(k)) = k
          /\ errorCode[k] = lastCall.c
    /\ Get(lastCall.key) = lastCall.kind

\* C18 as stated: a registry call that stores under name n leaves, for every
\* other name m in the table, the kind get(m) returns and the kind and code
\* get_all_issues() reports for m as they were.
C18_OtherEntriesKept ==
    [][\A n \in Keys : Stores(n) =>
          \A m \in DOMAIN GetAllIssues \ {n} :
              /\ Get(m)' = Get(m)
              /\ m \in DOMAIN GetAllIssues'
              /\ GetAllIssues'[m] = GetAllIssues[m]]_vars

\* C17 as stated: a get_all_issues() call made while other threads register
\* never fails, and the mapping it returns is the table as it was at one
\* instant between the call's start and its return.
C17_ReadIsAtomic ==
    /\ rdPc # "raised"
    /\ rdPc = "returned" => rdResult \in rdSeen

\* ------------------------------------------------- the facade's later claim

\* Configurations with which every setup sequence raises: in _setup_logging,
\* or in _start_queue_listener after the configuration was applied.
SetupFails ==
    \/ cfgFile \in {"PermissionError", "ValueError"}
    \/ cfgFile = "valid" /\ cfgHandler = "nolistener"

\* The create_logger calls of threads 1..n that have gone past the test of
\* _initialized and the try block of _setup_logging.
RECURSIVE CallsPastSetup(_)
CallsPastSetup(n) ==
    IF n = 0 THEN 0
    ELSE CallsPastSetup(n - 1) + calls[n] - (IF pc[n] \in {"check", "setup"} THEN 1 ELSE 0)

\* C20: with create_logger calls made one after another, a call that fails
\* in _setup_logging or in _start_queue_listener leaves _initialized false,
\* and every later call runs the setup sequence again from its start: the
\* configuration is loaded once per call, and applied once per call where
\* the failure comes at or after its application.
C20_FailedSetupRunsAgain ==
    /\ (\E t \in Threads : pc[t] = "idle" /\ outcome[t].kind \in {"RuntimeError", "AttributeError"})
          => ~initialized
    /\ SetupFails =>
          /\ loadCount = CallsPastSetup(NThreads)
          /\ cfgFile # "PermissionError" => applyCount = loadCount

\* The second call too has failed after the configuration was applied: it has
\* been applied twice.
C20_Witness ==
    /\ cfgFile = "valid"
    /\ cfgHandler = "nolistener"
    /\ ~initialized
    /\ applyCount = 2
    /\ \A t \in Threads : pc[t] = "idle"
    /\ \E t \in Threads : outcome[t].kind = "AttributeError"

====
